---- MODULE Spec2Model ----
\* Migration configuration of sqlx-core (sqlx-core/src/config/migrate.rs) and the
\* tests that exercise it (sqlx-core/src/config/tests.rs).
\*
\* Strings are TLA+ strings, joined with \o as format!() joins them. A driver
\* kind is a sequence of one-character strings, since to_lowercase() works
\* character by character. Option<T> is a sequence: <<>> is None, <<v>> is Some(v).
EXTENDS Integers, Sequences, FiniteSets, TLC

VARIABLES
    env,         \* the process environment: variable name -> Option<OsString>
    config,      \* Option<Config>: the Config under use, None before construction
    origin,      \* how `config` was constructed: "none", "default" or "literal"
    envAtNew,    \* the environment as the construction of `config` read it
    last,        \* Option<call record>: the most recent resolver call on `config`
    pending,     \* Option<record>: the operation under way between its two reads
                 \* of the environment, with the value its first read saw
    INIT,        \* tests.rs: the state of `static INIT: Once`
    pc,          \* tests.rs: the position of each #[test] function
    local,       \* tests.rs: each test's `config` local
    seen         \* tests.rs: what each assert_eq! of a test observed

vars == <<env, config, origin, envAtNew, last, pending,
          INIT, pc, local, seen>>

-----------------------------------------------------------------------------
\* Option<T>

None == <<>>

Some(v) == <<v>>

is_some(o) == o # None

unwrap(o) == o[1]

unwrap_or(o, d) == IF is_some(o) THEN unwrap(o) ELSE d

Option(S) == {None} \cup {Some(v) : v \in S}

-----------------------------------------------------------------------------
\* The process environment, as std::env sees it.

SQLX_MIGRATIONS_TABLE == "SQLX_MIGRATIONS_TABLE"

SQLX_MIGRATIONS_SCHEMA == "SQLX_MIGRATIONS_SCHEMA"

EnvKeys == {SQLX_MIGRATIONS_TABLE, SQLX_MIGRATIONS_SCHEMA}

\* An OsString that is valid Unicode.
Utf8(s) == [utf8 |-> TRUE, s |-> s]

\* An OsString that is not valid Unicode: std::env::var() fails on it.
NotUnicode == [utf8 |-> FALSE, s |-> "\\xFF"]

\* The values tests.rs gives the two variables (init_test_env).
EnvTableNames == {"test_migrations"}

EnvSchemaNames == {"test_schema"}

\* The values tests.rs expects of the reference configuration file.
FileTableNames == {"foo._sqlx_migrations"}

FileSchemaNames == {"my_migrations"}

OsValues(k) ==
    {NotUnicode} \cup
    {Utf8(s) : s \in IF k = SQLX_MIGRATIONS_TABLE THEN EnvTableNames ELSE EnvSchemaNames}

EmptyEnv == [k \in EnvKeys |-> None]

\* std::env::var(key).ok(): the value when the variable is present and valid
\* Unicode, None when it is absent (VarError::NotPresent) or not valid Unicode
\* (VarError::NotUnicode).
env_var_ok(e, key) ==
    IF is_some(e[key]) /\ unwrap(e[key]).utf8 THEN Some(unwrap(e[key]).s) ELSE None

set_var(e, key, value) == [e EXCEPT ![key] = Some(value)]

remove_var(e, key) == [e EXCEPT ![key] = None]

-----------------------------------------------------------------------------
\* str::to_lowercase on the characters a driver kind is written in.

UpperChars ==
    <<"A", "B", "C", "D", "E", "F", "G", "H", "I", "J", "K", "L", "M",
      "N", "O", "P", "Q", "R", "S", "T", "U", "V", "W", "X", "Y", "Z">>

LowerChars ==
    <<"a", "b", "c", "d", "e", "f", "g", "h", "i", "j", "k", "l", "m",
      "n", "o", "p", "q", "r", "s", "t", "u", "v", "w", "x", "y", "z">>

char_to_lowercase(c) ==
    IF \E i \in DOMAIN UpperChars : UpperChars[i] = c
    THEN LowerChars[CHOOSE i \in DOMAIN UpperChars : UpperChars[i] = c]
    ELSE c

to_lowercase(str) == [i \in DOMAIN str |-> char_to_lowercase(str[i])]

KindPostgres == <<"p", "o", "s", "t", "g", "r", "e", "s">>

KindPostgresql == <<"p", "o", "s", "t", "g", "r", "e", "s", "q", "l">>

DatabaseKinds ==
    { KindPostgres,
      KindPostgresql,
      <<"P", "o", "s", "t", "g", "r", "e", "s">>,
      <<"P", "O", "S", "T", "G", "R", "E", "S", "Q", "L">>,
      <<"m", "y", "s", "q", "l">>,
      <<"S", "Q", "L", "i", "t", "e">> }

-----------------------------------------------------------------------------
\* Config and its constructors.

DEFAULT_TABLE == "_sqlx_migrations"

DEFAULT_SCHEMA == "public"

DEFAULT_MIGRATIONS_DIR == "migrations"

\* A Config whose table_name and drivers.postgres.schema are given; every other
\* field has its Default.
ConfigWith(table, schema) ==
    [ create_schemas |-> {},
      table_name     |-> table,
      migrations_dir |-> None,
      ignored_chars  |-> {},
      defaults       |-> [migration_type |-> "Inferred",
                          migration_versioning |-> "Inferred"],
      drivers        |-> [postgres |-> [schema |-> schema]] ]

\* Mutant: Postgres::default() that leaves the schema to the call-time read.
Postgres_default_NoEnv(e) == [schema |-> None]

\* impl Default for Postgres
Postgres_default(e) == [schema |-> env_var_ok(e, SQLX_MIGRATIONS_SCHEMA)]

\* impl Default for Config
Config_default(e) ==
    [ ConfigWith(env_var_ok(e, SQLX_MIGRATIONS_TABLE), None)
        EXCEPT !.drivers = [postgres |-> Postgres_default(e)] ]

-----------------------------------------------------------------------------
\* impl Config: the resolvers. `c` is the Config, `e` the environment at the call.

migrations_dir(c) == unwrap_or(c.migrations_dir, DEFAULT_MIGRATIONS_DIR)

\* Mutant: postgres_schema() that falls back to "public" as qualified_table_name does.
postgres_schema_PublicDefault(c, e) ==
    IF is_some(c.drivers.postgres.schema)
    THEN c.drivers.postgres.schema
    ELSE IF is_some(env_var_ok(e, SQLX_MIGRATIONS_SCHEMA))
         THEN env_var_ok(e, SQLX_MIGRATIONS_SCHEMA)
         ELSE Some(DEFAULT_SCHEMA)

\* Mutant: postgres_schema() without the call-time read of the environment.
postgres_schema_ConfigOnly(c, e) == c.drivers.postgres.schema

postgres_schema(c, e) ==
    IF is_some(c.drivers.postgres.schema)
    THEN c.drivers.postgres.schema
    ELSE env_var_ok(e, SQLX_MIGRATIONS_SCHEMA)

\* Mutant: table_name() that returns an explicit table name as it is written.
table_name_ExplicitUnqualified(c, e) ==
    IF is_some(c.table_name)
    THEN unwrap(c.table_name)
    ELSE IF is_some(env_var_ok(e, SQLX_MIGRATIONS_SCHEMA))
         THEN unwrap(env_var_ok(e, SQLX_MIGRATIONS_SCHEMA)) \o "." \o DEFAULT_TABLE
         ELSE DEFAULT_TABLE

table_name(c, e) ==
    LET schema == postgres_schema(c, e) IN
    IF is_some(schema)
    THEN IF is_some(c.table_name)
         THEN unwrap(schema) \o "." \o unwrap(c.table_name)
         ELSE unwrap(schema) \o "." \o DEFAULT_TABLE
    ELSE unwrap_or(c.table_name, DEFAULT_TABLE)

\* Mutant: qualified_table_name() that lets the environment override the config.
qualified_table_name_EnvFirst(c, e, database_kind) ==
    IF to_lowercase(database_kind) \in {KindPostgres, KindPostgresql}
    THEN LET schema ==
                 IF is_some(env_var_ok(e, SQLX_MIGRATIONS_SCHEMA))
                 THEN unwrap(env_var_ok(e, SQLX_MIGRATIONS_SCHEMA))
                 ELSE unwrap_or(c.drivers.postgres.schema, DEFAULT_SCHEMA)
             table ==
                 IF is_some(env_var_ok(e, SQLX_MIGRATIONS_TABLE))
                 THEN unwrap(env_var_ok(e, SQLX_MIGRATIONS_TABLE))
                 ELSE unwrap_or(c.table_name, DEFAULT_TABLE)
         IN  schema \o "." \o table
    ELSE table_name(c, e)

\* Mutant: qualified_table_name() that skips the schema variable.
qualified_table_name_NoEnvSchema(c, e, database_kind) ==
    IF to_lowercase(database_kind) \in {KindPostgres, KindPostgresql}
    THEN unwrap_or(c.drivers.postgres.schema, DEFAULT_SCHEMA) \o "." \o
         unwrap_or(c.table_name, unwrap_or(env_var_ok(e, SQLX_MIGRATIONS_TABLE),
                                           DEFAULT_TABLE))
    ELSE table_name(c, e)

qualified_table_name(c, e, database_kind) ==
    IF to_lowercase(database_kind) \in {KindPostgres, KindPostgresql}
    THEN LET schema ==
                 IF is_some(c.drivers.postgres.schema)
                 THEN unwrap(c.drivers.postgres.schema)
                 ELSE IF is_some(env_var_ok(e, SQLX_MIGRATIONS_SCHEMA))
                      THEN unwrap(env_var_ok(e, SQLX_MIGRATIONS_SCHEMA))
                      ELSE DEFAULT_SCHEMA
             table ==
                 IF is_some(c.table_name)
                 THEN unwrap(c.table_name)
                 ELSE IF is_some(env_var_ok(e, SQLX_MIGRATIONS_TABLE))
                      THEN unwrap(env_var_ok(e, SQLX_MIGRATIONS_TABLE))
                      ELSE DEFAULT_TABLE
         IN  schema \o "." \o table
    ELSE table_name(c, e)

-----------------------------------------------------------------------------
\* The resolver's life: one thread constructs a Config and calls the resolvers
\* on it, while the rest of the host process may change the environment at any
\* moment. Each std::env::var() is one step: it holds the environment lock of
\* std for that read alone, so a write can fall between the two reads of
\* Config::default() and of qualified_table_name().

testVars == <<INIT, pc, local, seen>>

NoTests ==
    /\ INIT = "incomplete"
    /\ pc = [t \in {} |-> "idle"]
    /\ local = [t \in {} |-> None]
    /\ seen = [t \in {} |-> None]

Init ==
    /\ env \in [EnvKeys -> {None}] \cup
               {[k \in EnvKeys |-> Some(Utf8(IF k = SQLX_MIGRATIONS_TABLE
                                             THEN "test_migrations"
                                             ELSE "test_schema"))]}
    /\ config = None
    /\ origin = "none"
    /\ envAtNew = EmptyEnv
    /\ last = None
    /\ pending = None
    /\ NoTests

\* std::env::set_var(key, value), on any thread
SetVar ==
    \E k \in EnvKeys : \E v \in OsValues(k) :
        /\ env' = set_var(env, k, v)
        /\ UNCHANGED <<config, origin, envAtNew, last, pending, testVars>>

\* std::env::remove_var(key), on any thread
RemoveVar ==
    \E k \in EnvKeys :
        /\ env' = remove_var(env, k)
        /\ UNCHANGED <<config, origin, envAtNew, last, pending, testVars>>

\* The environment as an operation read it: `first` is what its first read saw
\* of variable k, every other variable is as it is now, at the second read.
AsRead(k, first) == [env EXCEPT ![k] = first]

\* let config = Config::default(); up to the read of SQLX_MIGRATIONS_TABLE
\* (table_name: ..). The Config in use and its last call are dropped.
ConfigDefaultTable ==
    /\ pending = None
    /\ pending' = Some([op |-> "default", kind |-> <<>>,
                        first |-> env[SQLX_MIGRATIONS_TABLE]])
    /\ config' = None
    /\ origin' = "none"
    /\ envAtNew' = EmptyEnv
    /\ last' = None
    /\ UNCHANGED <<env, testVars>>

\* let config = Config::default(); from drivers: Default::default(), which
\* reads SQLX_MIGRATIONS_SCHEMA in Postgres::default(), to the end.
ConfigDefaultDrivers ==
    /\ is_some(pending)
    /\ unwrap(pending).op = "default"
    /\ LET e == AsRead(SQLX_MIGRATIONS_TABLE, unwrap(pending).first) IN
         /\ config' = Some(Config_default(e))
         /\ envAtNew' = e
    /\ origin' = "default"
    /\ pending' = None
    /\ UNCHANGED <<env, last, testVars>>

\* let config = Config { table_name: .., drivers: Drivers { postgres: Postgres { schema: .. } }, .. };
ConfigLiteral ==
    \E t \in Option(FileTableNames) : \E s \in Option(FileSchemaNames) :
        /\ pending = None
        /\ config' = Some(ConfigWith(t, s))
        /\ origin' = "literal"
        /\ envAtNew' = env
        /\ last' = None
        /\ UNCHANGED <<env, pending, testVars>>

\* The record of a call: what it returned and the environment as it read it.
Call(op, kind, ret, e) == [op |-> op, kind |-> kind, ret |-> ret, env |-> e]

\* config.migrations_dir()
CallMigrationsDir ==
    /\ pending = None
    /\ is_some(config)
    /\ last' = Some(Call("migrations_dir", <<>>, migrations_dir(unwrap(config)), env))
    /\ UNCHANGED <<env, config, origin, envAtNew, pending, testVars>>

\* config.table_name(): its one read is that of postgres_schema()
CallTableName ==
    /\ pending = None
    /\ is_some(config)
    /\ last' = Some(Call("table_name", <<>>, table_name(unwrap(config), env), env))
    /\ UNCHANGED <<env, config, origin, envAtNew, pending, testVars>>

\* config.postgres_schema()
CallPostgresSchema ==
    /\ pending = None
    /\ is_some(config)
    /\ last' = Some(Call("postgres_schema", <<>>,
                         postgres_schema(unwrap(config), env), env))
    /\ UNCHANGED <<env, config, origin, envAtNew, pending, testVars>>

\* config.qualified_table_name(database_kind), the `_` arm: table_name()
CallQualifiedTableName ==
    \E kind \in DatabaseKinds :
        /\ pending = None
        /\ is_some(config)
        /\ to_lowercase(kind) \notin {KindPostgres, KindPostgresql}
        /\ last' = Some(Call("qualified_table_name", kind,
                             qualified_table_name(unwrap(config), env, kind), env))
        /\ UNCHANGED <<env, config, origin, envAtNew, pending, testVars>>

\* config.qualified_table_name(database_kind), the "postgres" | "postgresql"
\* arm up to `let schema = ..`, where SQLX_MIGRATIONS_SCHEMA is read.
CallQualifiedSchema ==
    \E kind \in DatabaseKinds :
        /\ pending = None
        /\ is_some(config)
        /\ to_lowercase(kind) \in {KindPostgres, KindPostgresql}
        /\ pending' = Some([op |-> "qualified_table_name", kind |-> kind,
                            first |-> env[SQLX_MIGRATIONS_SCHEMA]])
        /\ last' = None
        /\ UNCHANGED <<env, config, origin, envAtNew, testVars>>

\* config.qualified_table_name(database_kind), the "postgres" | "postgresql"
\* arm from `let table = ..`, where SQLX_MIGRATIONS_TABLE is read, to the end.
CallQualifiedTable ==
    /\ is_some(pending)
    /\ unwrap(pending).op = "qualified_table_name"
    /\ LET e == AsRead(SQLX_MIGRATIONS_SCHEMA, unwrap(pending).first)
           kind == unwrap(pending).kind
       IN  last' = Some(Call("qualified_table_name", kind,
                             qualified_table_name(unwrap(config), e, kind), e))
    /\ pending' = None
    /\ UNCHANGED <<env, config, origin, envAtNew, testVars>>

ResolverCall ==
    \/ CallMigrationsDir
    \/ CallTableName
    \/ CallPostgresSchema
    \/ CallQualifiedTableName
    \/ CallQualifiedSchema
    \/ CallQualifiedTable

Next ==
    \/ SetVar
    \/ RemoveVar
    \/ ConfigDefaultTable
    \/ ConfigDefaultDrivers
    \/ ConfigLiteral
    \/ ResolverCall

Spec == Init /\ [][Next]_vars

-----------------------------------------------------------------------------
\* tests.rs: the three #[test] functions, each on its own thread of one test
\* process, sharing the process environment. Every step reads or writes the
\* environment at most once.

T_REFERENCE == "reference_parses_as_config"

T_ENV_VAR == "test_migrate_env_var_support"

T_DEFAULTS == "test_migrate_defaults_without_env"

Tests == {T_REFERENCE, T_ENV_VAR, T_DEFAULTS}

NotSeen == [table_name |-> None, postgres_schema |-> None]

\* The [migrate] section of reference.toml, as assert_migrate_config expects it.
\* Postgres, Drivers and Config are each #[serde(default)]: once the keys of a
\* table are consumed the derived visitor calls the type's default(), here
\* `default`, and the fields the file sets replace those of it.

\* [migrate.drivers.postgres]
ReferencePostgres(default) == [default EXCEPT !.schema = Some("my_migrations")]

\* [migrate.drivers], `postgres` being the Postgres deserialized before
ReferenceDrivers(default, postgres) == [default EXCEPT !.postgres = postgres]

\* [migrate], `drivers` being the Drivers deserialized before
ReferenceConfig(default, drivers) ==
    [ default EXCEPT
        !.table_name = Some("foo._sqlx_migrations"),
        !.migrations_dir = Some("foo/migrations"),
        !.ignored_chars = {" ", "\t", "\r", "\n", "\\u{FEFF}"},
        !.defaults = [migration_type |-> "Reversible",
                      migration_versioning |-> "Sequential"],
        !.drivers = drivers ]

assert_migrate_config(c) ==
    /\ c.table_name = Some("foo._sqlx_migrations")
    /\ c.migrations_dir = Some("foo/migrations")
    /\ c.ignored_chars = {" ", "\t", "\r", "\n", "\\u{FEFF}"}
    /\ c.defaults.migration_type = "Reversible"
    /\ c.defaults.migration_versioning = "Sequential"
    /\ c.drivers.postgres.schema = Some("my_migrations")

\* The test process starts with neither variable set.
InitTests ==
    /\ env = EmptyEnv
    /\ INIT = "incomplete"
    /\ pc = [t \in Tests |->
               CASE t = T_REFERENCE -> "postgres"
                 [] t = T_ENV_VAR   -> "init_test_env"
                 [] t = T_DEFAULTS  -> "construct"]
    /\ local = [t \in Tests |-> None]
    /\ seen = [t \in Tests |-> NotSeen]
    /\ config = None
    /\ origin = "none"
    /\ envAtNew = EmptyEnv
    /\ last = None
    /\ pending = None

otherVars == <<config, origin, envAtNew, last, pending>>

Goto(t, label) == pc' = [pc EXCEPT ![t] = label]

\* Config::default() on a test's thread, first half: table_name is read from
\* the environment; drivers is not built yet.
DefaultTable == ConfigWith(env_var_ok(env, SQLX_MIGRATIONS_TABLE), None)

\* Config::default() on a test's thread, second half: the drivers of `c` are
\* built, by Drivers::default() and so Postgres::default().
DefaultDrivers(c) == [c EXCEPT !.drivers = [postgres |-> Postgres_default(env)]]

\* reference_parses_as_config: toml::from_str(..), the [migrate.drivers.postgres]
\* table: Postgres::default() reads SQLX_MIGRATIONS_SCHEMA, the file's schema
\* replaces it.
ReferencePostgresTable ==
    /\ pc[T_REFERENCE] = "postgres"
    /\ local' = [local EXCEPT ![T_REFERENCE] =
                    Some([postgres |-> ReferencePostgres(Postgres_default(env))])]
    /\ Goto(T_REFERENCE, "drivers")
    /\ UNCHANGED <<env, INIT, seen, otherVars>>

\* reference_parses_as_config: toml::from_str(..), the [migrate.drivers] table:
\* Drivers::default() reads SQLX_MIGRATIONS_SCHEMA again.
ReferenceDriversTable ==
    /\ pc[T_REFERENCE] = "drivers"
    /\ local' = [local EXCEPT ![T_REFERENCE] =
                    Some([drivers |->
                            ReferenceDrivers([postgres |-> Postgres_default(env)],
                                             unwrap(local[T_REFERENCE]).postgres)])]
    /\ Goto(T_REFERENCE, "default_table")
    /\ UNCHANGED <<env, INIT, seen, otherVars>>

\* reference_parses_as_config: toml::from_str(..), the [migrate] table:
\* Config::default() up to the read of SQLX_MIGRATIONS_TABLE
ReferenceDefaultTable ==
    /\ pc[T_REFERENCE] = "default_table"
    /\ local' = [local EXCEPT ![T_REFERENCE] =
                    Some([drivers |-> unwrap(local[T_REFERENCE]).drivers,
                          default |-> DefaultTable])]
    /\ Goto(T_REFERENCE, "parse")
    /\ UNCHANGED <<env, INIT, seen, otherVars>>

\* reference_parses_as_config: toml::from_str(..), the [migrate] table:
\* Config::default() from its read of SQLX_MIGRATIONS_SCHEMA, and the fields of
\* the file put in its place
ReferenceParse ==
    /\ pc[T_REFERENCE] = "parse"
    /\ local' = [local EXCEPT ![T_REFERENCE] =
                    Some(ReferenceConfig(
                           DefaultDrivers(unwrap(local[T_REFERENCE]).default),
                           unwrap(local[T_REFERENCE]).drivers))]
    /\ Goto(T_REFERENCE, "assert_migrate_config")
    /\ UNCHANGED <<env, INIT, seen, otherVars>>

\* reference_parses_as_config: assert_migrate_config(&config.migrate)
ReferenceAssertMigrateConfig ==
    /\ pc[T_REFERENCE] = "assert_migrate_config"
    /\ Goto(T_REFERENCE, IF assert_migrate_config(unwrap(local[T_REFERENCE]))
                         THEN "passed" ELSE "panicked")
    /\ UNCHANGED <<env, INIT, local, seen, otherVars>>

\* init_test_env: INIT.call_once(..) enters the closure the first time only
InitTestEnv ==
    /\ pc[T_ENV_VAR] = "init_test_env"
    /\ IF INIT = "incomplete"
       THEN INIT' = "running" /\ Goto(T_ENV_VAR, "set_table")
       ELSE INIT' = INIT /\ Goto(T_ENV_VAR, "default_table")
    /\ UNCHANGED <<env, local, seen, otherVars>>

\* init_test_env: std::env::set_var("SQLX_MIGRATIONS_TABLE", "test_migrations")
InitSetTable ==
    /\ pc[T_ENV_VAR] = "set_table"
    /\ env' = set_var(env, SQLX_MIGRATIONS_TABLE, Utf8("test_migrations"))
    /\ Goto(T_ENV_VAR, "set_schema")
    /\ UNCHANGED <<INIT, local, seen, otherVars>>

\* init_test_env: std::env::set_var("SQLX_MIGRATIONS_SCHEMA", "test_schema"),
\* and the Once completes
InitSetSchema ==
    /\ pc[T_ENV_VAR] = "set_schema"
    /\ env' = set_var(env, SQLX_MIGRATIONS_SCHEMA, Utf8("test_schema"))
    /\ INIT' = "complete"
    /\ Goto(T_ENV_VAR, "default_table")
    /\ UNCHANGED <<local, seen, otherVars>>

\* test_migrate_env_var_support: let config = Config::default(); (table_name)
EnvVarDefaultTable ==
    /\ pc[T_ENV_VAR] = "default_table"
    /\ local' = [local EXCEPT ![T_ENV_VAR] = Some(DefaultTable)]
    /\ Goto(T_ENV_VAR, "default_drivers")
    /\ UNCHANGED <<env, INIT, seen, otherVars>>

\* test_migrate_env_var_support: let config = Config::default(); (drivers)
EnvVarDefaultDrivers ==
    /\ pc[T_ENV_VAR] = "default_drivers"
    /\ local' = [local EXCEPT ![T_ENV_VAR] = Some(DefaultDrivers(unwrap(local[T_ENV_VAR])))]
    /\ Goto(T_ENV_VAR, "asserts")
    /\ UNCHANGED <<env, INIT, seen, otherVars>>

\* test_migrate_env_var_support: the two assert_eq!, the second reached only
\* when the first holds
EnvVarAsserts ==
    /\ pc[T_ENV_VAR] = "asserts"
    /\ LET c == unwrap(local[T_ENV_VAR])
           table == table_name(c, env)
           schema == postgres_schema(c, env)
       IN  IF table # "test_migrations"
           THEN /\ seen' = [seen EXCEPT ![T_ENV_VAR].table_name = Some(table)]
                /\ Goto(T_ENV_VAR, "panicked")
           ELSE /\ seen' = [seen EXCEPT ![T_ENV_VAR] =
                               [table_name |-> Some(table),
                                postgres_schema |-> Some(schema)]]
                /\ Goto(T_ENV_VAR, IF schema = Some("test_schema")
                                   THEN "passed" ELSE "panicked")
    /\ UNCHANGED <<env, INIT, local, otherVars>>

\* test_migrate_defaults_without_env: let config = Config { table_name: None, .. };
DefaultsConstruct ==
    /\ pc[T_DEFAULTS] = "construct"
    /\ local' = [local EXCEPT ![T_DEFAULTS] = Some(ConfigWith(None, None))]
    /\ Goto(T_DEFAULTS, "assert_table_name")
    /\ UNCHANGED <<env, INIT, seen, otherVars>>

\* test_migrate_defaults_without_env: assert_eq!(config.table_name(), "_sqlx_migrations")
DefaultsAssertTableName ==
    /\ pc[T_DEFAULTS] = "assert_table_name"
    /\ LET table == table_name(unwrap(local[T_DEFAULTS]), env) IN
         /\ seen' = [seen EXCEPT ![T_DEFAULTS].table_name = Some(table)]
         /\ Goto(T_DEFAULTS, IF table = "_sqlx_migrations"
                             THEN "assert_postgres_schema" ELSE "panicked")
    /\ UNCHANGED <<env, INIT, local, otherVars>>

\* test_migrate_defaults_without_env: assert_eq!(config.postgres_schema(), None)
DefaultsAssertPostgresSchema ==
    /\ pc[T_DEFAULTS] = "assert_postgres_schema"
    /\ LET schema == postgres_schema(unwrap(local[T_DEFAULTS]), env) IN
         /\ seen' = [seen EXCEPT ![T_DEFAULTS].postgres_schema = Some(schema)]
         /\ Goto(T_DEFAULTS, IF schema = None THEN "passed" ELSE "panicked")
    /\ UNCHANGED <<env, INIT, local, otherVars>>

NextTests ==
    \/ ReferencePostgresTable
    \/ ReferenceDriversTable
    \/ ReferenceDefaultTable
    \/ ReferenceParse
    \/ ReferenceAssertMigrateConfig
    \/ InitTestEnv
    \/ InitSetTable
    \/ InitSetSchema
    \/ EnvVarDefaultTable
    \/ EnvVarDefaultDrivers
    \/ EnvVarAsserts
    \/ DefaultsConstruct
    \/ DefaultsAssertTableName
    \/ DefaultsAssertPostgresSchema

SpecTests == InitTests /\ [][NextTests]_vars

-----------------------------------------------------------------------------
\* Properties of the resolvers, stated over the most recent call: `last` holds
\* what the call returned and the environment as the call read it (each
\* variable at the moment the call reads it); `config` is the Config
\* it ran on, `origin` and `envAtNew` say how and when that Config was made.

Called(op) == is_some(last) /\ unwrap(last).op = op

Ret == unwrap(last).ret

EnvAtCall == unwrap(last).env

Cfg == unwrap(config)

IsPostgresKind(kind) == to_lowercase(kind) \in {KindPostgres, KindPostgresql}

CalledQualified(postgres) ==
    /\ Called("qualified_table_name")
    /\ IsPostgresKind(unwrap(last).kind) = postgres

\* "The first present of": a, else b, else the constant d.
FirstPresent(a, b, d) == IF a # None THEN a[1] ELSE IF b # None THEN b[1] ELSE d

\* What a readable environment variable holds, None when unset or unreadable.
Readable(e, k) == IF e[k] # None /\ e[k][1].utf8 THEN <<e[k][1].s>> ELSE <<>>

Unset(e) == \A k \in EnvKeys : e[k] = None

\* C1: with both variables set when Config::default() ran, table_name() is the
\* table variable's value and postgres_schema() is Some of the schema variable's.
C1_DefaultReadsEnv ==
    ( /\ origin = "default"
      /\ Readable(envAtNew, SQLX_MIGRATIONS_TABLE) # None
      /\ Readable(envAtNew, SQLX_MIGRATIONS_SCHEMA) # None )
    => /\ Called("table_name") => Ret = Readable(envAtNew, SQLX_MIGRATIONS_TABLE)[1]
       /\ Called("postgres_schema") => Ret = Readable(envAtNew, SQLX_MIGRATIONS_SCHEMA)

\* C2: for a PostgreSQL kind (any letter case), qualified_table_name is
\* "{schema}.{table}", schema the first present of the config's schema, the
\* schema variable at the call, "public"; table the first present of the
\* config's table name, the table variable at the call, "_sqlx_migrations".
C2_QualifiedPostgres ==
    CalledQualified(TRUE) =>
        Ret = FirstPresent(Cfg.drivers.postgres.schema,
                           Readable(EnvAtCall, SQLX_MIGRATIONS_SCHEMA), "public")
              \o "." \o
              FirstPresent(Cfg.table_name,
                           Readable(EnvAtCall, SQLX_MIGRATIONS_TABLE), "_sqlx_migrations")

\* C2 witness: a mixed-case PostgreSQL kind, resolved from the environment alone.
C2_Witness ==
    /\ CalledQualified(TRUE)
    /\ unwrap(last).kind \notin {KindPostgres, KindPostgresql}
    /\ Cfg.table_name = None
    /\ Cfg.drivers.postgres.schema = None
    /\ Ret = "test_schema.test_migrations"

\* C3: for any other kind, qualified_table_name is the bare table name: the
\* config's table name if set, else "_sqlx_migrations", never schema-prefixed.
C3_QualifiedOtherKindIsBare ==
    CalledQualified(FALSE) =>
        Ret = FirstPresent(Cfg.table_name, None, "_sqlx_migrations")

\* C4: a default Config made and used with neither variable set has
\* table_name() = "_sqlx_migrations" and postgres_schema() = None; and
\* postgres_schema() never answers with the constant "public".
C4_DefaultsWithoutEnv ==
    /\ (origin = "default" /\ Unset(envAtNew) /\ is_some(last) /\ Unset(EnvAtCall))
       => /\ Called("table_name") => Ret = "_sqlx_migrations"
          /\ Called("postgres_schema") => Ret = None
    /\ Called("postgres_schema") => Ret # <<"public">>

\* C4 witness: both resolvers have answered in that situation (one at a time).
C4_Witness ==
    /\ origin = "default" /\ Unset(envAtNew) /\ is_some(last) /\ Unset(EnvAtCall)
    /\ Called("postgres_schema")
    /\ Ret = None

\* C5: a Config made while a variable was unset has that field absent, and a
\* later call uses the value the variable has at the call: postgres_schema() is
\* Some(v), qualified_table_name("postgres") has v as its schema (for the schema
\* variable) or as its table (for the table variable).
C5_CallTimeReadWins ==
    /\ origin = "default" =>
          /\ envAtNew[SQLX_MIGRATIONS_TABLE] = None => Cfg.table_name = None
          /\ envAtNew[SQLX_MIGRATIONS_SCHEMA] = None => Cfg.drivers.postgres.schema = None
    /\ \A v \in EnvSchemaNames :
         ( /\ is_some(last)
           /\ Cfg.drivers.postgres.schema = None
           /\ EnvAtCall[SQLX_MIGRATIONS_SCHEMA] = <<[utf8 |-> TRUE, s |-> v]>> )
         => /\ (Called("postgres_schema") => Ret = <<v>>)
            /\ (CalledQualified(TRUE) =>
                 Ret = v \o "." \o
                       FirstPresent(Cfg.table_name,
                                    Readable(EnvAtCall, SQLX_MIGRATIONS_TABLE),
                                    "_sqlx_migrations"))
    /\ \A v \in EnvTableNames :
         ( /\ CalledQualified(TRUE)
           /\ Cfg.table_name = None
           /\ EnvAtCall[SQLX_MIGRATIONS_TABLE] = <<[utf8 |-> TRUE, s |-> v]>> )
         => Ret = FirstPresent(Cfg.drivers.postgres.schema,
                               Readable(EnvAtCall, SQLX_MIGRATIONS_SCHEMA),
                               "public")
                  \o "." \o v

\* C5 witness: made by Config::default() with nothing set, both variables set
\* afterwards, and qualified_table_name("postgres") answers with both.
C5_Witness ==
    /\ origin = "default"
    /\ Unset(envAtNew)
    /\ CalledQualified(TRUE)
    /\ Ret = "test_schema.test_migrations"

\* C8: table_name() takes an explicit Config.table_name t as it is: with a
\* schema s resolvable (from the config, else from the schema variable at the
\* call) it is s.t, also when t already holds a "."; with none it is t.
C8_TableNameNotRewritten ==
    (Called("table_name") /\ Cfg.table_name # None) =>
        LET t == Cfg.table_name[1]
            s == IF Cfg.drivers.postgres.schema # None
                 THEN Cfg.drivers.postgres.schema
                 ELSE Readable(EnvAtCall, SQLX_MIGRATIONS_SCHEMA)
        IN  Ret = IF s # None THEN s[1] \o "." \o t ELSE t

\* C8 witness: the reference configuration's schema and already-qualified table.
C8_Witness ==
    /\ Called("table_name")
    /\ Cfg.table_name = <<"foo._sqlx_migrations">>
    /\ Ret = "my_migrations.foo._sqlx_migrations"

\* C9: whenever postgres_schema() is Some, qualified_table_name("postgres")
\* and table_name() give the same name.
C9_SameTrackingTable ==
    (CalledQualified(TRUE) /\ postgres_schema(Cfg, EnvAtCall) # None)
        => Ret = table_name(Cfg, EnvAtCall)

\* C9 as amended: the two agree whenever postgres_schema() is Some and either
\* Config.table_name is set or the table variable yields no value at the call.
C9_SameTrackingTableAmended ==
    ( /\ CalledQualified(TRUE)
      /\ postgres_schema(Cfg, EnvAtCall) # None
      /\ \/ Cfg.table_name # None
         \/ Readable(EnvAtCall, SQLX_MIGRATIONS_TABLE) = None )
    => Ret = table_name(Cfg, EnvAtCall)

\* C9 witness: the schema comes from the environment, the table from the config.
C9_Witness ==
    /\ CalledQualified(TRUE)
    /\ Cfg.drivers.postgres.schema = None
    /\ Cfg.table_name # None
    /\ Ret = "test_schema.foo._sqlx_migrations"
    /\ Ret = table_name(Cfg, EnvAtCall)

C10_SnapshotState ==
    ( /\ origin = "default"
      /\ Readable(envAtNew, SQLX_MIGRATIONS_TABLE) # None
      /\ Readable(envAtNew, SQLX_MIGRATIONS_SCHEMA) # None )
    => /\ Called("postgres_schema") =>
            Ret = Readable(envAtNew, SQLX_MIGRATIONS_SCHEMA)
       /\ CalledQualified(TRUE) =>
            Ret = Readable(envAtNew, SQLX_MIGRATIONS_SCHEMA)[1] \o "." \o
                  Readable(envAtNew, SQLX_MIGRATIONS_TABLE)[1]

\* C10: a Config made by Config::default() with both variables set keeps their
\* values: whatever is set or unset later, postgres_schema() is Some(s) and
\* qualified_table_name("postgres") is s.t; and a resolver call changes neither
\* the Config nor the environment.
C10_DefaultSnapshotsEnv ==
    /\ []C10_SnapshotState
    /\ [][ResolverCall => (config' = config /\ env' = env)]_vars

\* C10 witness: the call ran after both variables had been taken away again.
C10_Witness ==
    /\ origin = "default"
    /\ Readable(envAtNew, SQLX_MIGRATIONS_TABLE) # None
    /\ Readable(envAtNew, SQLX_MIGRATIONS_SCHEMA) # None
    /\ CalledQualified(TRUE)
    /\ Unset(EnvAtCall)
    /\ Ret = "test_schema.test_migrations"

\* C7: however init_test_env's writes interleave with
\* test_migrate_defaults_without_env, the Config built with explicit None
\* values is seen to give table_name() = "_sqlx_migrations" and
\* postgres_schema() = None.
C7_DefaultsTestSeesUnsetEnv ==
    /\ seen[T_DEFAULTS].table_name \in {<<>>, <<"_sqlx_migrations">>}
    /\ seen[T_DEFAULTS].postgres_schema \in {<<>>, << <<>> >>}
    /\ pc[T_DEFAULTS] # "panicked"

====
